---- MODULE Spec2Model ----
(***************************************************************************)
(* A model of sequelize-to-json-schema: the JsonSchema generator, the      *)
(* SchemaFactory that builds generators, and the mock model layer the      *)
(* tests feed them.                                                        *)
(*                                                                         *)
(* Representation of JavaScript values:                                    *)
(*   - a string is a sequence of one-character strings, so that endsWith,  *)
(*     concatenation, lowerCase/capitalize and localeCompare are computed; *)
(*   - an object whose key order is observable (attributes, associations,  *)
(*     a properties map, a customSchema table) is an ordered map: a        *)
(*     sequence of <<key, value>> pairs with distinct keys, in insertion   *)
(*     order;                                                              *)
(*   - an options object or a property schema is a function whose DOMAIN   *)
(*     is the set of keys the object has;                                  *)
(*   - a call either returns or throws: [ok |-> TRUE, value |-> v] or      *)
(*     [ok |-> FALSE, error |-> e].                                        *)
(***************************************************************************)
EXTENDS Integers, Sequences, FiniteSets, TLC

VARIABLES
    factoryOptions,   \* SchemaFactory.options: the stored defaults
    callerOptions,    \* the options object of a direct construction
    mergedOptions,    \* the merged copy getSchemaGenerator built
    generator,        \* the generator the program holds, or None
    supplied,         \* the options object as it was handed to the constructor
    last              \* the last call and its outcome

vars == <<factoryOptions, callerOptions, mergedOptions, generator, supplied, last>>

-----------------------------------------------------------------------------
(* Bounds *)

\* Nesting depth of inline associations after which the call stack is
\* taken to be exhausted (the engine's RangeError).
MaxDepth == 3

-----------------------------------------------------------------------------
(* Strings *)

s_slash == <<"/">>
s_json == <<".", "j", "s", "o", "n">>
s_properties == <<"/", "p", "r", "o", "p", "e", "r", "t", "i", "e", "s", "/">>
s_sch == <<"s", "c", "h", ".", "e", "x">>
s_other == <<"a", "l", "t", ".", "e", "x", "/">>
s_42 == <<"4", "2">>

s_user == <<"u", "s", "e", "r">>
s_address == <<"a", "d", "d", "r", "e", "s", "s">>
s_addresses == <<"a", "d", "d", "r", "e", "s", "s", "e", "s">>
s_profile == <<"p", "r", "o", "f", "i", "l", "e">>
s_profiles == <<"p", "r", "o", "f", "i", "l", "e", "s">>
s_ghost == <<"g", "h", "o", "s", "t">>
s_name == <<"n", "a", "m", "e">>
s_full_name == <<"f", "u", "l", "l", "_", "n", "a", "m", "e">>
s_fullName == <<"f", "u", "l", "l", "N", "a", "m", "e">>
s_status == <<"s", "t", "a", "t", "u", "s">>
s_password == <<"p", "a", "s", "s", "w", "o", "r", "d">>
s_country == <<"c", "o", "u", "n", "t", "r", "y">>
s_postCount == <<"p", "o", "s", "t", "C", "o", "u", "n", "t">>
s_Mood == <<"M", "o", "o", "d">>
s_users == <<"u", "s", "e", "r", "s">>
s_place == <<"p", "l", "a", "c", "e">>
s_location == <<"l", "o", "c", "a", "t", "i", "o", "n">>
s_uuid == <<"u", "u", "i", "d">>
s_Uuid == <<"U", "u", "i", "d">>
s_userUuid == s_user \o s_Uuid
s_Custom == <<"C", "u", "s", "t", "o", "m">>

LowerLetters == <<"a", "b", "c", "d", "e", "f", "g", "h", "i", "j", "k", "l", "m",
                  "n", "o", "p", "q", "r", "s", "t", "u", "v", "w", "x", "y", "z">>
UpperLetters == <<"A", "B", "C", "D", "E", "F", "G", "H", "I", "J", "K", "L", "M",
                  "N", "O", "P", "Q", "R", "S", "T", "U", "V", "W", "X", "Y", "Z">>

IndexIn(c, letters) ==
    IF \E i \in 1..Len(letters) : letters[i] = c
    THEN CHOOSE i \in 1..Len(letters) : letters[i] = c
    ELSE 0

IsUpper(c) == IndexIn(c, UpperLetters) > 0
IsLower(c) == IndexIn(c, LowerLetters) > 0
IsLetter(c) == IsUpper(c) \/ IsLower(c)

\* String.prototype.toLowerCase / toUpperCase on one character
toLower(c) == IF IsUpper(c) THEN LowerLetters[IndexIn(c, UpperLetters)] ELSE c
toUpper(c) == IF IsLower(c) THEN UpperLetters[IndexIn(c, LowerLetters)] ELSE c

\* String.prototype.endsWith
endsWith(s, suffix) ==
    /\ Len(s) >= Len(suffix)
    /\ SubSeq(s, Len(s) - Len(suffix) + 1, Len(s)) = suffix

\* lodash words(): split at every non-letter and before an upper-case
\* letter that follows a lower-case one; empty words are dropped.
RECURSIVE wordsFrom(_, _, _, _)
wordsFrom(s, i, cur, acc) ==
    IF i > Len(s)
    THEN IF cur = <<>> THEN acc ELSE Append(acc, cur)
    ELSE LET c == s[i] IN
         IF ~IsLetter(c)
         THEN wordsFrom(s, i + 1, <<>>, IF cur = <<>> THEN acc ELSE Append(acc, cur))
         ELSE IF IsUpper(c) /\ cur # <<>> /\ IsLower(cur[Len(cur)])
         THEN wordsFrom(s, i + 1, <<c>>, Append(acc, cur))
         ELSE wordsFrom(s, i + 1, Append(cur, c), acc)

words(s) == wordsFrom(s, 1, <<>>, <<>>)

strToLower(s) == [i \in 1..Len(s) |-> toLower(s[i])]

RECURSIVE joinWords(_, _)
joinWords(ws, sep) ==
    IF ws = <<>> THEN <<>>
    ELSE IF Len(ws) = 1 THEN ws[1]
    ELSE ws[1] \o sep \o joinWords(Tail(ws), sep)

\* _.lowerCase: the words, lower-cased, joined by one space
lowerCase(s) == strToLower(joinWords(words(s), <<" ">>))

\* _.capitalize: first character upper-cased, the rest lower-cased
capitalize(s) ==
    IF s = <<>> THEN <<>>
    ELSE <<toUpper(s[1])>> \o strToLower(Tail(s))

\* pluralize.singular on a regular noun: a final "s" is dropped unless the
\* word ends in "ss"
singular(s) ==
    IF endsWith(s, <<"s">>) /\ ~endsWith(s, <<"s", "s">>) /\ Len(s) > 1
    THEN SubSeq(s, 1, Len(s) - 1)
    ELSE s

\* The collation rank of one character under String.prototype.localeCompare:
\* punctuation sorts before digits, digits before letters, and letters
\* compare by alphabet position first (case is only a tie-break).
primaryRank(c) ==
    IF IsLetter(c) THEN 100 + IndexIn(toLower(c), LowerLetters)
    ELSE IF c \in {"0", "1", "2", "3", "4", "5", "6", "7", "8", "9"} THEN 50
    ELSE 10

RECURSIVE comparePrimary(_, _, _)
comparePrimary(a, b, i) ==
    IF i > Len(a) /\ i > Len(b) THEN 0
    ELSE IF i > Len(a) THEN -1
    ELSE IF i > Len(b) THEN 1
    ELSE IF primaryRank(a[i]) < primaryRank(b[i]) THEN -1
    ELSE IF primaryRank(a[i]) > primaryRank(b[i]) THEN 1
    ELSE comparePrimary(a, b, i + 1)

RECURSIVE compareCase(_, _, _)
compareCase(a, b, i) ==
    IF i > Len(a) \/ i > Len(b) THEN 0
    ELSE IF IsLower(a[i]) /\ IsUpper(b[i]) THEN -1
    ELSE IF IsUpper(a[i]) /\ IsLower(b[i]) THEN 1
    ELSE compareCase(a, b, i + 1)

\* a.localeCompare(b): negative, zero or positive
localeCompare(a, b) ==
    LET p == comparePrimary(a, b, 1) IN
    IF p # 0 THEN p ELSE compareCase(a, b, 1)

-----------------------------------------------------------------------------
(* Ordered maps: JavaScript objects whose key order is observable *)

EmptyMap == <<>>

Keys(m) == [i \in 1..Len(m) |-> m[i][1]]

Has(m, k) == \E i \in 1..Len(m) : m[i][1] = k

Get(m, k) == m[CHOOSE i \in 1..Len(m) : m[i][1] = k][2]

\* obj[k] = v: an existing key keeps its position, a new key is appended
Put(m, k, v) ==
    IF Has(m, k)
    THEN [i \in 1..Len(m) |-> IF m[i][1] = k THEN <<k, v>> ELSE m[i]]
    ELSE Append(m, <<k, v>>)

Range(seq) == {seq[i] : i \in 1..Len(seq)}

\* Object.assign(target, source): the source's keys win
assign(target, source) == source @@ target

-----------------------------------------------------------------------------
(* Results of calls *)

Ok(v) == [ok |-> TRUE, value |-> v]
Err(e) == [ok |-> FALSE, error |-> e]

InvalidModelError == "Are you sure model is a sequelize model class?"
MissingConfigError == "Please specify a string for options.hrefBase"
UnknownAttributeError == "Unknown model attribute"
TypeError == "TypeError"
RangeError == "RangeError: Maximum call stack size exceeded"

-----------------------------------------------------------------------------
(* The type map *)

\* typeMap[type]; a key the table lacks reads as undefined
Undefined == "undefined"

typeMap(type) ==
    CASE type \in {"INTEGER", "BIGINT"} -> "integer"
      [] type = "FLOAT" -> "number"
      [] type = "BOOLEAN" -> "boolean"
      [] type \in {"STRING", "TEXT", "ENUM", "DATE"} -> "string"
      [] type \in {"JSON", "JSONB"} -> "object"
      [] type = "ARRAY" -> "array"
      [] OTHER -> Undefined

-----------------------------------------------------------------------------
(* The model layer: descriptors as modelFactory and associate build them *)

\* modelFactory(name, attributes): a string value becomes {key: value}
attributeOf(key) == [type |-> [key |-> key]]
enumAttributeOf(values) == [type |-> [key |-> "ENUM", values |-> values]]

modelFactory(name, attributes, associations) ==
    [name |-> name, tableName |-> name,
     attributes |-> attributes, associations |-> associations]

\* associate(): associations[assoc.name] = {target, name, associationType}
associate(target, associationType) ==
    [target |-> target, associationType |-> associationType]

user ==
    modelFactory(s_user,
        << <<s_name, attributeOf("STRING")>>,
           <<s_full_name, attributeOf("STRING")>>,
           <<s_status, enumAttributeOf(<<"REAL", "IMAGINED">>)>>,
           <<s_password, attributeOf("STRING")>> >>,
        << <<s_address, associate(s_address, "hasMany")>>,
           <<s_profile, associate(s_profile, "hasOne")>> >>)

address ==
    modelFactory(s_address,
        << <<s_country, attributeOf("STRING")>> >>,
        << <<s_user, associate(s_user, "BelongsTo")>>,
           <<s_profile, associate(s_profile, "belongsToMany")>> >>)

profile ==
    modelFactory(s_profile,
        EmptyMap,
        << <<s_user, associate(s_user, "BelongsToMany")>>,
           <<s_address, associate(s_address, "HasMany")>> >>)

\* A model whose uuid is declared an ENUM, whose location has a type the
\* type map lacks, and whose user is both an attribute and an association
place ==
    modelFactory(s_place,
        << <<s_uuid, enumAttributeOf(<<"V1", "V4">>)>>,
           <<s_location, attributeOf("GEOMETRY")>>,
           <<s_user, attributeOf("STRING")>> >>,
        << <<s_user, associate(s_user, "belongsTo")>> >>)

\* An object that is no model: it has a name but no tableName
ghost == [name |-> s_ghost, attributes |-> EmptyMap, associations |-> EmptyMap]

\* No model at all
undefinedModel == [undefined |-> TRUE]

\* The registry modelFactory keeps (models[name])
models ==
    << <<s_user, user>>, <<s_address, address>>, <<s_profile, profile>>,
       <<s_place, place>> >>

ModelInputs == {user, address, profile, place, ghost, undefinedModel}

-----------------------------------------------------------------------------
(* The hooks a configuration may carry *)

False == <<>>

\* selectAttributes(model) of the test suite
testSelectAttributes(model) ==
    IF model.name = s_user
    THEN <<s_full_name, s_address, s_profile, s_status, s_name>>
    ELSE Keys(model.attributes)

\* jsonAttributeMapper(model, name) of the test suite
testJsonAttributeMapper(model, name) ==
    IF name = s_full_name THEN s_fullName ELSE name

\* A jsonAssociationMapper as the README describes it: the JSON name of an
\* association is the plural of its model name; [false, false] for a key
\* that names no association.  It accepts either name of an association.
pluralOf(key) ==
    IF endsWith(key, <<"s">>) THEN key \o <<"e", "s">> ELSE key \o <<"s">>

pluralJsonAssociationMapper(model, key) ==
    IF Has(model.associations, key)
    THEN <<key, pluralOf(key)>>
    ELSE IF \E i \in 1..Len(model.associations) : pluralOf(model.associations[i][1]) = key
    THEN <<model.associations[CHOOSE i \in 1..Len(model.associations) :
                pluralOf(model.associations[i][1]) = key][1], key>>
    ELSE <<False, False>>

callSelectAttributes(hook, model) ==
    CASE hook = "testSelectAttributes" -> testSelectAttributes(model)

callJsonAttributeMapper(hook, model, name) ==
    CASE hook = "testJsonAttributeMapper" -> testJsonAttributeMapper(model, name)

callJsonAssociationMapper(hook, model, key) ==
    CASE hook = "pluralJsonAssociationMapper" -> pluralJsonAssociationMapper(model, key)

-----------------------------------------------------------------------------
(* JsonSchema: the generator *)

\* A JavaScript value that may or may not be a string
StringValue(s) == [t |-> "string", v |-> s]
NumberValue(s) == [t |-> "number", v |-> s]

\* _.isString
isString(x) == x.t = "string"

\* truthiness of an optional string-or-number option
truthy(options, key) == key \in DOMAIN options /\ options[key].v # <<>>

\* this.model = model; this.customSchema = this.options.customSchema || {}
construct(model, options) ==
    [ok |-> TRUE, model |-> model.name, options |-> options,
     customSchema |-> IF "customSchema" \in DOMAIN options
                      THEN options.customSchema ELSE EmptyMap]

\* A mutation of rootProperties: the default of customSchema is written to
\* the options object as well
rootAndCustomSchema(options) ==
    assign(options,
           [propertyRoot |->
               IF "propertyRoot" \in DOMAIN options /\ options.propertyRoot # <<>>
               THEN options.propertyRoot ELSE <<>>,
            customSchema |->
               IF "customSchema" \in DOMAIN options
               THEN options.customSchema ELSE EmptyMap])

\* this.options.propertyRoot = this.options.propertyRoot || ''
rootProperties(options) ==
    assign(options,
           [propertyRoot |->
               IF "propertyRoot" \in DOMAIN options /\ options.propertyRoot # <<>>
               THEN options.propertyRoot ELSE <<>>])

\* A mutation of normaliseHrefBase: the separator is appended whatever
\* hrefBase ends with
appendSeparator(options) ==
    assign(options, [hrefBase |-> StringValue(options.hrefBase.v \o s_slash)])

\* if (!options.hrefBase.endsWith('/')) options.hrefBase += '/'
normaliseHrefBase(options) ==
    IF ~endsWith(options.hrefBase.v, s_slash)
    THEN assign(options, [hrefBase |-> StringValue(options.hrefBase.v \o s_slash)])
    ELSE options

\* A mutation of constructor: hrefBase is checked before the model
constructorHrefBaseFirst(model, options) ==
    IF ~(truthy(options, "hrefBase") /\ isString(options.hrefBase))
    THEN [ok |-> FALSE, error |-> MissingConfigError, options |-> options]
    ELSE IF model = undefinedModel \/ "tableName" \notin DOMAIN model
    THEN [ok |-> FALSE, error |-> InvalidModelError, options |-> options]
    ELSE construct(model, rootProperties(normaliseHrefBase(options)))

\* constructor(model, options): the generator built and the options object
\* as the constructor leaves it, or the error thrown (the options object is
\* then as it was when the throw happened)
constructor(model, options) ==
    IF model = undefinedModel \/ "tableName" \notin DOMAIN model
    THEN [ok |-> FALSE, error |-> InvalidModelError, options |-> options]
    ELSE IF ~(truthy(options, "hrefBase") /\ isString(options.hrefBase))
    THEN [ok |-> FALSE, error |-> MissingConfigError, options |-> options]
    ELSE construct(model, rootProperties(normaliseHrefBase(options)))

\* SchemaFactory.getSchemaGenerator(model, options): the merged copy
mergeOptions(defaults, overrides) ==
    assign(assign([factory |-> "this"], defaults), overrides)

getSchemaGenerator(defaults, model, overrides) ==
    constructor(model, mergeOptions(defaults, overrides))

\* getJsonAttribute(modelAttr)
getJsonAttribute(model, options, modelAttr) ==
    IF "jsonAttributeMapper" \in DOMAIN options
    THEN callJsonAttributeMapper(options.jsonAttributeMapper, model, modelAttr)
    ELSE modelAttr

\* selectAssociations(): throws when options.associations is undefined
selectAssociations(model, options) ==
    IF "associations" \notin DOMAIN options THEN Err(TypeError)
    ELSE IF Has(options.associations, model.name)
    THEN Ok(Keys(Get(options.associations, model.name)))
    ELSE Ok(<<>>)

\* attributes.concat(this.selectAssociations())
concatAssociations(attributes, assocs) ==
    IF assocs.ok THEN Ok(attributes \o assocs.value) ELSE assocs

\* A mutation of selectAttributes: the hook is not consulted
selectAttributesOfModel(model, options) ==
    concatAssociations(Keys(model.attributes), selectAssociations(model, options))

\* selectAttributes()
selectAttributes(model, options) ==
    concatAssociations(
        IF "selectAttributes" \in DOMAIN options
        THEN callSelectAttributes(options.selectAttributes, model)
        ELSE Keys(model.attributes),
        selectAssociations(model, options))

\* getAssociationKeys(key)
getAssociationKeys(model, options, key) ==
    IF "jsonAssociationMapper" \in DOMAIN options
    THEN callJsonAssociationMapper(options.jsonAssociationMapper, model, key)
    ELSE IF Has(model.associations, key) THEN <<key, key>>
    ELSE <<False, False>>

\* getAttributeId(key)
getAttributeId(options, key) == options.propertyRoot \o s_properties \o key

\* generatePropertySchema({ type, key })
generatePropertySchema(options, type, key) ==
    ("type" :> typeMap(type)) @@
    ("$id" :> getAttributeId(options, key)) @@
    ("examples" :> <<>>) @@
    ("title" :> capitalize(lowerCase(key)))

\* A mutation of getDbType: the declared type is read whatever the name
getDeclaredType(model, modelAttr) ==
    IF ~Has(model.attributes, modelAttr) THEN Err(UnknownAttributeError)
    ELSE Ok(Get(model.attributes, modelAttr).type.key)

\* getDbType(modelAttr)
getDbType(model, modelAttr) ==
    IF modelAttr = s_uuid \/ endsWith(modelAttr, s_Uuid) THEN Ok("STRING")
    ELSE IF ~Has(model.attributes, modelAttr) THEN Err(UnknownAttributeError)
    ELSE Ok(Get(model.attributes, modelAttr).type.key)

\* static modelPath(model) and fullUrl(base, model)
modelPath(model) == model.name \o s_json
fullUrl(base, model) == base \o modelPath(model)

\* boilerPlate()
boilerPlate(model, options) ==
    ("title" :> capitalize(singular(model.name))) @@
    ("$id" :> fullUrl(options.hrefBase.v, model)) @@
    ("type" :> "object") @@
    ("$schema" :> "http://json-schema.org/draft-06/schema#")

\* _.uniq: first occurrences, in order
RECURSIVE uniqFrom(_, _, _)
uniqFrom(seq, i, acc) ==
    IF i > Len(seq) THEN acc
    ELSE uniqFrom(seq, i + 1,
                  IF seq[i] \in Range(acc) THEN acc ELSE Append(acc, seq[i]))

uniq(seq) == uniqFrom(seq, 1, <<>>)

\* Array.prototype.sort((a, b) => a[0].localeCompare(b[0])) on [key, value]
\* pairs, then _.fromPairs
RECURSIVE insertPair(_, _)
insertPair(sorted, pair) ==
    IF sorted = <<>> THEN <<pair>>
    ELSE IF localeCompare(pair[1], sorted[1][1]) < 0 THEN <<pair>> \o sorted
    ELSE <<sorted[1]>> \o insertPair(Tail(sorted), pair)

RECURSIVE sortPairsFrom(_, _, _)
sortPairsFrom(pairs, i, acc) ==
    IF i > Len(pairs) THEN acc
    ELSE sortPairsFrom(pairs, i + 1, insertPair(acc, pairs[i]))

sortByKey(properties) == sortPairsFrom(properties, 1, <<>>)

\* The optional attributes argument of getSchema / getProperties
NoArgument == [given |-> FALSE]
Argument(names) == [given |-> TRUE, names |-> names]

\* A mutation of manyValued: the list of an earlier revision
manyValuedEarlier == {"HasMany", "belongsToMany"}

\* The association types that relate to multiple records
manyValued == {"HasMany", "hasMany", "BelongsToMany", "belongsToMany"}

\* A mutation of isInline: any configured value embeds
isInlineWhenConfigured(options, model, jsonKey) ==
    /\ "associations" \in DOMAIN options
    /\ Has(options.associations, model.name)
    /\ Has(Get(options.associations, model.name), jsonKey)

\* Only embed if explicitly directed to:
\* options.associations[model.name][jsonKey] === 'inline'
isInline(options, model, jsonKey) ==
    /\ "associations" \in DOMAIN options
    /\ Has(options.associations, model.name)
    /\ Has(Get(options.associations, model.name), jsonKey)
    /\ Get(Get(options.associations, model.name), jsonKey) = "inline"

\* a property is an object (truthy); false is not
isProperty(p) == DOMAIN p # {}

\* One virtual property: Object.assign({}, property,
\* this.generatePropertySchema({ key: attr, type: property.type }))
virtualProperty(g, attr, property) ==
    assign(property,
           generatePropertySchema(g.options,
               IF "type" \in DOMAIN property THEN property.type ELSE Undefined,
               attr))

\* The virtual properties injected after the selected attributes
RECURSIVE injectVirtualProperties(_, _, _, _)
injectVirtualProperties(g, virtuals, i, properties) ==
    IF i > Len(virtuals) THEN properties
    ELSE injectVirtualProperties(g, virtuals, i + 1,
             Put(properties, virtuals[i][1],
                 virtualProperty(g, virtuals[i][1], virtuals[i][2])))

\* if (this.options.virtualProperties && ...[this.model.name]) _.forEach(...)
withVirtualProperties(g, properties) ==
    IF "virtualProperties" \in DOMAIN g.options
       /\ Has(g.options.virtualProperties, g.model)
    THEN injectVirtualProperties(g, Get(g.options.virtualProperties, g.model), 1, properties)
    ELSE properties

\* if (property.enum) property.examples = _.uniq(property.examples.concat(property.enum))
exemplify(property) ==
    IF "enum" \in DOMAIN property
    THEN IF "examples" \notin DOMAIN property THEN Err(TypeError)
         ELSE Ok(assign(property, [examples |-> uniq(property.examples \o property.enum)]))
    ELSE Ok(property)

\* Object.assign(property, this.customSchema[this.model.name][jsonKey])
customise(g, jsonKey, property) ==
    IF Has(g.customSchema, g.model) /\ Has(Get(g.customSchema, g.model), jsonKey)
    THEN assign(property, Get(Get(g.customSchema, g.model), jsonKey))
    ELSE property

\* The body of the selectedAttributes.forEach callback, after
\* schemaForAttribute has returned [jsonKey, property]
describeProperty(g, key, jsonKey, property) ==
    exemplify(customise(g, jsonKey,
                        assign(property, [title |-> capitalize(lowerCase(key))])))

RECURSIVE getProperties(_, _, _, _)
RECURSIVE forEachSelected(_, _, _, _, _, _)
RECURSIVE schemaForAttribute(_, _, _, _)
RECURSIVE getAssociationSchema(_, _, _, _)
RECURSIVE associationProperty(_, _, _, _, _)

\* { type: 'object', properties: assocSchema.getProperties() }
embed(nested) ==
    IF ~nested.ok THEN nested
    ELSE Ok(("type" :> "object") @@ ("properties" :> nested.value))

\* The child generator describes the target; a chain of inline associations
\* that does not end exhausts the call stack
embedChild(defaults, assocSchema, depth) ==
    IF ~assocSchema.ok THEN Err(assocSchema.error)
    ELSE IF depth >= MaxDepth THEN Err(RangeError)
    ELSE embed(getProperties(defaults, assocSchema, NoArgument, depth + 1))

\* The embed-or-reference branch of getAssociationSchema: the property
\* before any array nesting.  defaults are the options of the factory this
\* generator refers to.
associationProperty(defaults, g, jsonKey, assocModel, depth) ==
    IF isInline(g.options, Get(models, g.model), jsonKey)
    THEN IF "factory" \notin DOMAIN g.options THEN Err(TypeError)
         ELSE embedChild(defaults,
                  getSchemaGenerator(defaults, assocModel,
                      [propertyRoot |-> getAttributeId(g.options, jsonKey)]),
                  depth)
    ELSE Ok("$ref" :> fullUrl(g.options.hrefBase.v, assocModel))

\* If it's a relationship to multiple records, nest in array
nestInArray(assocType, property) ==
    IF assocType \in manyValued
    THEN ("type" :> "array") @@ ("items" :> property)
    ELSE property

\* property.$id = this.getAttributeId(key); return [jsonKey, property]
identify(g, key, jsonKey, assocType, property) ==
    IF ~property.ok THEN property
    ELSE Ok(<<jsonKey,
              assign(nestInArray(assocType, property.value),
                     "$id" :> getAttributeId(g.options, key))>>)

\* getAssociationSchema after [modelKey, jsonKey] = getAssociationKeys(key)
associationSchemaOf(defaults, g, model, key, modelKey, jsonKey, depth) ==
    IF modelKey = False THEN Ok(<<False, False>>)
    ELSE IF ~Has(model.associations, modelKey) THEN Err(TypeError)
    ELSE identify(g, key, jsonKey,
             Get(model.associations, modelKey).associationType,
             associationProperty(defaults, g, jsonKey,
                 Get(models, Get(model.associations, modelKey).target), depth))

\* getAssociationSchema(key): [jsonKey, property] or [false, false]
getAssociationSchema(defaults, g, key, depth) ==
    associationSchemaOf(defaults, g, Get(models, g.model), key,
        getAssociationKeys(Get(models, g.model), g.options, key)[1],
        getAssociationKeys(Get(models, g.model), g.options, key)[2],
        depth)

\* if (this.getDbType(modelAttr) === 'ENUM') property.enum = ...type.values
withEnum(model, modelAttr, type, property) ==
    IF type = "ENUM"
    THEN assign(property, [enum |-> Get(model.attributes, modelAttr).type.values])
    ELSE property

\* schemaForAttribute for a name that is no association
attributeSchema(g, model, modelAttr, jsonKey, type) ==
    IF ~type.ok THEN type
    ELSE Ok(<<jsonKey,
              withEnum(model, modelAttr, type.value,
                       generatePropertySchema(g.options, type.value, jsonKey))>>)

\* A mutation of associationOrAttribute: a native attribute of the name is
\* described before the association is looked at
attributeBeforeAssociation(g, model, modelAttr, assoc) ==
    IF ~assoc.ok THEN assoc
    ELSE IF isProperty(assoc.value[2]) /\ ~Has(model.attributes, modelAttr) THEN assoc
    ELSE attributeSchema(g, model, modelAttr,
             getJsonAttribute(model, g.options, modelAttr),
             getDbType(model, modelAttr))

\* schemaForAttribute after getAssociationSchema has answered
associationOrAttribute(g, model, modelAttr, assoc) ==
    IF ~assoc.ok THEN assoc
    ELSE IF isProperty(assoc.value[2]) THEN assoc
    ELSE attributeSchema(g, model, modelAttr,
             getJsonAttribute(model, g.options, modelAttr),
             getDbType(model, modelAttr))

\* schemaForAttribute(modelAttr): [jsonKey, property]
schemaForAttribute(defaults, g, modelAttr, depth) ==
    associationOrAttribute(g, Get(models, g.model), modelAttr,
        getAssociationSchema(defaults, g, modelAttr, depth))

\* properties[jsonKey] = property, then the next selected name
storeProperty(defaults, g, selected, i, properties, depth, jsonKey, property) ==
    IF ~property.ok THEN property
    ELSE forEachSelected(defaults, g, selected, i + 1,
             Put(properties, jsonKey, property.value), depth)

\* The forEach callback on one [jsonKey, property] entry
describeEntry(defaults, g, selected, i, properties, depth, entry) ==
    IF ~entry.ok THEN entry
    ELSE storeProperty(defaults, g, selected, i, properties, depth, entry.value[1],
             describeProperty(g, selected[i], entry.value[1], entry.value[2]))

\* selectedAttributes.forEach(...)
forEachSelected(defaults, g, selected, i, properties, depth) ==
    IF i > Len(selected) THEN Ok(properties)
    ELSE describeEntry(defaults, g, selected, i, properties, depth,
             schemaForAttribute(defaults, g, selected[i], depth))

\* A mutation of injectAndSort: the keys are sorted before the virtual
\* properties are injected
sortThenInject(g, described) ==
    IF ~described.ok THEN described
    ELSE Ok(withVirtualProperties(g, sortByKey(described.value)))

\* Inject the virtual properties, then sort the object keys
injectAndSort(g, described) ==
    IF ~described.ok THEN described
    ELSE Ok(sortByKey(withVirtualProperties(g, described.value)))

\* getProperties once selectedAttributes is known
describeSelected(defaults, g, selectedAttributes, depth) ==
    IF ~selectedAttributes.ok THEN selectedAttributes
    ELSE injectAndSort(g,
             forEachSelected(defaults, g, selectedAttributes.value, 1, EmptyMap, depth))

\* getProperties(attributes)
getProperties(defaults, g, attributes, depth) ==
    describeSelected(defaults, g,
        IF attributes.given THEN Ok(attributes.names)
        ELSE selectAttributes(Get(models, g.model), g.options),
        depth)

\* result.properties = this.getProperties(attributes); return result
attachProperties(result, properties) ==
    IF ~properties.ok THEN properties
    ELSE Ok(assign(result, [properties |-> properties.value]))

\* getSchema(attributes)
getSchema(defaults, g, attributes) ==
    attachProperties(boilerPlate(Get(models, g.model), g.options),
                     getProperties(defaults, g, attributes, 0))

-----------------------------------------------------------------------------
(* The configurations a host program may write *)

\* An object with no keys
NoOptions == [k \in {} |-> k]

s_description == "Was it all just a dream?"

hrefBaseValid ==
    { "hrefBase" :> StringValue(s_sch),
      "hrefBase" :> StringValue(s_sch \o s_slash) }

hrefBaseInvalid ==
    { NoOptions,
      "hrefBase" :> StringValue(<<>>),
      "hrefBase" :> NumberValue(s_42) }

associationsPlain ==
    { NoOptions,
      "associations" :> EmptyMap,
      "associations" :> << <<s_user, << <<s_address, "inline">> >> >> >>,
      "associations" :> << <<s_user, << <<s_address, "inline">>, <<s_profile, "REL">> >> >> >>,
      "associations" :> << <<s_user, << <<s_profile, "inline">>, <<s_address, "REL">> >> >> >>,
      "associations" :> << <<s_address, << <<s_user, "inline">> >> >> >>,
      "associations" :> << <<s_user, << <<s_address, "inline">> >> >>,
                           <<s_address, << <<s_user, "inline">> >> >> >> }

associationsPlural ==
    { "associations" :> EmptyMap,
      "associations" :> << <<s_user, << <<s_addresses, "inline">> >> >> >>,
      "associations" :> << <<s_user, << <<s_profiles, "inline">>, <<s_addresses, "REL">> >> >> >> }

customSchemaChoices ==
    { NoOptions,
      "customSchema" :> << <<s_user, << <<s_status, [description |-> s_description]>> >> >> >>,
      "customSchema" :> << <<s_user, << <<s_status, [examples |-> <<"MAYBE">>, title |-> s_Mood]>>,
                                       <<s_postCount, [description |-> s_description]>> >> >> >>,
      "customSchema" :> << <<s_user, << <<s_profile, [enum |-> <<"PUBLIC", "PRIVATE">>]>> >> >> >>,
      "customSchema" :> << <<s_user, << <<s_name, ("$id" :> s_Custom) @@ [type |-> "integer", title |-> s_Custom]>> >> >>,
                           <<s_address, << <<s_country, [enum |-> <<"NZ", "AU", "NZ">>]>> >> >> >> }

virtualPropertiesChoices ==
    { NoOptions,
      "virtualProperties" :> << <<s_user, << <<s_postCount, [type |-> "INTEGER", description |-> "Number of posts by the user"]>> >> >> >>,
      "virtualProperties" :> << <<s_user, << <<s_Mood, [type |-> "STRING", enum |-> <<"UP", "DOWN">>]>> >> >> >> }

selectAttributesChoices ==
    { NoOptions, "selectAttributes" :> "testSelectAttributes" }

jsonAttributeMapperChoices ==
    { NoOptions, "jsonAttributeMapper" :> "testJsonAttributeMapper" }

\* Naming and selection: every combination of href base, associations,
\* selection hook and the two mappers, without custom or virtual schema
namingConfigs ==
    { h @@ a @@ s @@ m :
        h \in hrefBaseValid, a \in associationsPlain,
        s \in selectAttributesChoices, m \in jsonAttributeMapperChoices }
    \cup
    { h @@ a @@ s @@ ("jsonAssociationMapper" :> "pluralJsonAssociationMapper") :
        h \in hrefBaseValid, a \in associationsPlural, s \in selectAttributesChoices }

\* Custom and virtual schema over the association modes
schemaConfigs ==
    { ("hrefBase" :> StringValue(s_sch)) @@ a @@ c @@ v :
        a \in { "associations" :> EmptyMap,
                "associations" :> << <<s_user, << <<s_address, "inline">>, <<s_profile, "REL">> >> >> >> },
        c \in customSchemaChoices, v \in virtualPropertiesChoices }
    \cup
    { ("hrefBase" :> StringValue(s_sch)) @@ c @@ v
        @@ ("selectAttributes" :> "testSelectAttributes")
        @@ ("associations" :> << <<s_user, << <<s_address, "inline">> >> >> >>) :
        c \in customSchemaChoices, v \in virtualPropertiesChoices }

\* Configurations the constructor rejects
invalidConfigs ==
    { h @@ a : h \in hrefBaseInvalid,
               a \in { NoOptions,
                       "associations" :> << <<s_user, << <<s_address, "inline">> >> >> >> } }

\* The association values as the README spells them
readmeConfigs ==
    { ("hrefBase" :> StringValue(s_sch))
      @@ ("associations" :> << <<s_user, << <<s_address, "INLINE">>, <<s_profile, "REL">> >> >> >>) }

Configs == namingConfigs \cup schemaConfigs \cup invalidConfigs \cup readmeConfigs

\* Per-call overrides of getSchemaGenerator
Overrides ==
    { NoOptions, "hrefBase" :> StringValue(s_other) }

\* The attribute lists a caller may pass for a model
AttributeArguments(model) ==
    { NoArgument,
      Argument(Keys(model.associations) \o Keys(model.attributes)),
      Argument(<<s_ghost>>) }
    \cup (IF model.name \in {s_address, s_place}
          THEN {Argument(<<s_userUuid, s_uuid>>)} ELSE {})

-----------------------------------------------------------------------------
(* SchemaHelper: the test helper *)

\* if (!fields) fields = ['description', 'examples', 'type', 'title', '$id']
defaultFields == <<"description", "examples", "type", "title", "$id">>
fieldsOrDefault(fields) == IF fields.given THEN fields.names ELSE defaultFields

\* prop.$ref || (prop.type === 'object' && this.model.associations[key])
isAssociaton(model, key, prop) ==
    \/ "$ref" \in DOMAIN prop /\ prop["$ref"] # <<>>
    \/ /\ "type" \in DOMAIN prop
       /\ prop.type = "object"
       /\ Has(model.associations, key)

\* _.difference(fields, Object.keys(prop))
missingKeys(fields, prop) ==
    SelectSeq(fields, LAMBDA f : f \notin DOMAIN prop)

\* The _.forEach over response.body.properties: missing[key] = missingKeys
\* for every property that is not taken for an association and has a gap
RECURSIVE collectMissing(_, _, _, _, _)
collectMissing(model, properties, fields, i, missing) ==
    IF i > Len(properties) THEN missing
    ELSE collectMissing(model, properties, fields, i + 1,
             IF ~isAssociaton(model, properties[i][1], properties[i][2])
                /\ missingKeys(fields, properties[i][2]) # <<>>
             THEN Put(missing, properties[i][1], missingKeys(fields, properties[i][2]))
             ELSE missing)

AssertionError == "AssertionError: Properties are not fully described, see diff for missing properties"

\* if (Object.keys(missing).length) expect(missing, ...).to.equal({})
expectNoneMissing(missing) ==
    IF missing # EmptyMap
    THEN [ok |-> FALSE, error |-> AssertionError, missing |-> missing]
    ELSE Ok(Undefined)

\* assertAllPropertiesDescribed(response, fields) of a helper for model
assertAllPropertiesDescribed(model, properties, fields) ==
    expectNoneMissing(
        collectMissing(model, properties, fieldsOrDefault(fields), 1, EmptyMap))

\* The field lists a caller may pass to the helper
FieldArguments == { NoArgument, Argument(<<"type", "examples">>) }

-----------------------------------------------------------------------------
(* The program *)

None == [none |-> TRUE]

\* The options object a generator holds: the factory's merged copy, or the
\* very object the caller passed to the constructor
optionsOf(gen) ==
    IF gen.options = "caller" THEN callerOptions ELSE mergedOptions

\* The generator as the methods see it
this == [model |-> generator.model, options |-> optionsOf(generator),
         customSchema |-> generator.customSchema]

\* The state after new SchemaFactory(options): the factory holds the
\* defaults, no generator has been built yet
Init ==
    /\ factoryOptions \in Configs
    /\ callerOptions = NoOptions
    /\ mergedOptions = NoOptions
    /\ generator = None
    /\ supplied = NoOptions
    /\ last = [op |-> "init"]

\* The last call was getSchema or getProperties
called == last.op \in {"getSchema", "getProperties"}

\* The last call was the helper's assertAllPropertiesDescribed
asserted == last.op = "assertAllPropertiesDescribed"

\* The program keeps the generator a construction returns, or none when it
\* throws; the options object the constructor was given stays as the
\* constructor left it
Keep(held, built, call) ==
    /\ generator' = IF built.ok
                    THEN [model |-> built.model, options |-> held,
                          customSchema |-> built.customSchema]
                    ELSE None
    /\ last' = IF built.ok THEN call @@ [ok |-> TRUE]
               ELSE call @@ [ok |-> FALSE, error |-> built.error]
    /\ IF held = "merged"
       THEN mergedOptions' = built.options /\ callerOptions' = NoOptions
       ELSE callerOptions' = built.options /\ mergedOptions' = NoOptions

\* A mutation of GetSchemaGenerator: the overrides are merged into the
\* stored defaults themselves and the generator is built on them
GetSchemaGeneratorInPlace(model, overrides) ==
    /\ supplied' = mergeOptions(factoryOptions, overrides)
    /\ Keep("merged", getSchemaGenerator(factoryOptions, model, overrides),
            [op |-> "getSchemaGenerator", model |-> model, overrides |-> overrides])
    /\ factoryOptions' = getSchemaGenerator(factoryOptions, model, overrides).options

\* factory.getSchemaGenerator(model, overrides)
GetSchemaGenerator(model, overrides) ==
    /\ supplied' = mergeOptions(factoryOptions, overrides)
    /\ Keep("merged", getSchemaGenerator(factoryOptions, model, overrides),
            [op |-> "getSchemaGenerator", model |-> model, overrides |-> overrides])
    /\ UNCHANGED factoryOptions

\* new JsonSchema(model, options) called directly, as the test helper does,
\* on an options object of the caller: a copy of the factory's defaults
\* (schemaFactory.getTestHelper), or the object the previous direct
\* construction was given
NewJsonSchema(model, reuse) ==
    /\ reuse => generator # None /\ generator.options = "caller"
    /\ supplied' = IF reuse THEN callerOptions ELSE factoryOptions
    /\ Keep("caller",
            constructor(model, IF reuse THEN callerOptions ELSE factoryOptions),
            [op |-> "new", model |-> model])
    /\ UNCHANGED factoryOptions

\* A mutation of GetSchema: the call leaves the separator appended once more
\* to the hrefBase of the generator's options
GetSchemaAppending(attributes) ==
    /\ generator # None
    /\ last' = [op |-> "getSchema", attributes |-> attributes,
                result |-> getSchema(factoryOptions, this, attributes),
                again |-> (called \/ asserted) /\ ~attributes.given]
    /\ mergedOptions' = IF generator.options = "merged"
                        THEN appendSeparator(mergedOptions) ELSE mergedOptions
    /\ callerOptions' = IF generator.options = "caller"
                        THEN appendSeparator(callerOptions) ELSE callerOptions
    /\ UNCHANGED <<factoryOptions, generator, supplied>>

\* generator.getSchema(attributes); again records that the generator had
\* answered a call before this getSchema()
GetSchema(attributes) ==
    /\ generator # None
    /\ last' = [op |-> "getSchema", attributes |-> attributes,
                result |-> getSchema(factoryOptions, this, attributes),
                again |-> (called \/ asserted) /\ ~attributes.given]
    /\ UNCHANGED <<factoryOptions, callerOptions, mergedOptions, generator, supplied>>

\* generator.getProperties(attributes)
GetProperties(attributes) ==
    /\ generator # None
    /\ last' = [op |-> "getProperties", attributes |-> attributes,
                result |-> getProperties(factoryOptions, this, attributes, 0)]
    /\ UNCHANGED <<factoryOptions, callerOptions, mergedOptions, generator, supplied>>

\* A helper for the generator's model exists: the one that built the
\* generator on the caller's options, or one that factory.getTestHelper(model)
\* builds on a copy of the defaults
helperBuilt ==
    /\ generator # None
    /\ \/ generator.options = "caller"
       \/ constructor(Get(models, generator.model), factoryOptions).ok

\* helper.assertAllPropertiesDescribed(response, fields), the response body
\* being the document getSchema() has just returned
AssertAllPropertiesDescribed(fields) ==
    /\ helperBuilt
    /\ last.op = "getSchema" /\ ~last.attributes.given /\ last.result.ok
    /\ last' = [op |-> "assertAllPropertiesDescribed", fields |-> fields,
                response |-> last.result.value,
                result |-> assertAllPropertiesDescribed(
                               Get(models, generator.model),
                               last.result.value.properties, fields)]
    /\ UNCHANGED <<factoryOptions, callerOptions, mergedOptions, generator, supplied>>

Next ==
    \/ \E model \in ModelInputs, overrides \in Overrides :
           GetSchemaGenerator(model, overrides)
    \/ \E model \in ModelInputs, reuse \in BOOLEAN : NewJsonSchema(model, reuse)
    \/ /\ generator # None
       /\ \E attributes \in AttributeArguments(Get(models, generator.model)) :
              GetSchema(attributes)
    \/ /\ generator # None
       /\ \E attributes \in AttributeArguments(Get(models, generator.model)) :
              GetProperties(attributes)
    \/ \E fields \in FieldArguments : AssertAllPropertiesDescribed(fields)

Spec == Init /\ [][Next]_vars

-----------------------------------------------------------------------------
(* What the last call returned *)

\* ... and it returned rather than threw
returned == called /\ last.result.ok

\* The properties map it returned
returnedProperties ==
    IF last.op = "getSchema" THEN last.result.value.properties ELSE last.result.value

\* The model and options of the generator the program holds
theModel == Get(models, generator.model)
theOptions == optionsOf(generator)

\* The names the last call described
selectedNames ==
    IF last.attributes.given THEN last.attributes.names
    ELSE selectAttributes(theModel, theOptions).value

-----------------------------------------------------------------------------
(* C1 *)

\* C1: a factory configured with hrefBase only (customSchema allowed; no
\* associations, mappers or selection hook) gives a generator whose
\* getSchema(), called without arguments, returns a document with exactly one
\* property per native attribute of the model; for user, full_name is a
\* "string" and status has enum and examples [REAL, IMAGINED].
C1_BasicExampleReturnsSchema ==
    ( /\ last.op = "getSchema"
      /\ ~last.attributes.given
      /\ generator.options = "merged"
      /\ "hrefBase" \in DOMAIN factoryOptions
      /\ DOMAIN factoryOptions \subseteq {"hrefBase", "customSchema"}
      /\ supplied = mergeOptions(factoryOptions, NoOptions) )
    => /\ last.result.ok
       /\ Len(last.result.value.properties) = Len(theModel.attributes)
       /\ Range(Keys(last.result.value.properties)) = Range(Keys(theModel.attributes))
       /\ generator.model = s_user =>
            /\ Get(last.result.value.properties, s_full_name).type = "string"
            /\ Get(last.result.value.properties, s_status).enum = <<"REAL", "IMAGINED">>
            /\ Get(last.result.value.properties, s_status).examples = <<"REAL", "IMAGINED">>

-----------------------------------------------------------------------------
(* C2 *)

RECURSIVE idsFollowKeys(_, _)
idsFollowKeys(properties, propertyRoot) ==
    \A i \in 1..Len(properties) :
        LET key == properties[i][1]
            property == properties[i][2]
        IN /\ "$id" \in DOMAIN property
           /\ property["$id"] = propertyRoot \o s_properties \o key
           /\ "properties" \in DOMAIN property =>
                  idsFollowKeys(property.properties, property["$id"])
           /\ ("items" \in DOMAIN property /\ "properties" \in DOMAIN property.items) =>
                  idsFollowKeys(property.items.properties, property["$id"])

\* C2: in every property map getProperties returns, at the top level and in
\* every nested inline map, the $id of a property is propertyRoot +
\* "/properties/" + the JSON key it is stored under, and a nested map's
\* propertyRoot is the $id of the property that embeds it; also when a mapper
\* renames the native name.  (Stated where no customSchema is configured, so
\* that no fragment supplies an $id of its own.)
C2_IdsFollowJsonKeys ==
    (returned /\ "customSchema" \notin DOMAIN theOptions)
    => idsFollowKeys(returnedProperties, theOptions.propertyRoot)

-----------------------------------------------------------------------------
(* C3, C4: associations *)

\* The selected names that the association-key mapper resolves
associationNames ==
    { n \in Range(selectedNames) : getAssociationKeys(theModel, theOptions, n)[1] # False }

jsonKeyOf(n) == getAssociationKeys(theModel, theOptions, n)[2]
associationOf(n) == Get(theModel.associations, getAssociationKeys(theModel, theOptions, n)[1])

\* hasMany and belongsToMany, in the spellings sequelize and the mock use
isManyValued(n) ==
    associationOf(n).associationType \in {"hasMany", "HasMany", "belongsToMany", "BelongsToMany"}

\* associations[modelName][jsonKey] is "inline"
configuredInline(jsonKey) ==
    /\ "associations" \in DOMAIN theOptions
    /\ \E i \in 1..Len(theOptions.associations) :
         /\ theOptions.associations[i][1] = generator.model
         /\ \E j \in 1..Len(theOptions.associations[i][2]) :
                theOptions.associations[i][2][j] = <<jsonKey, "inline">>

\* The schema of the association itself: the property, or the items of the
\* array that wraps it
bodyOf(n) ==
    LET property == Get(returnedProperties, jsonKeyOf(n)) IN
    IF isManyValued(n) THEN property.items ELSE property

\* The properties map of a child generator for the target of n
childProperties(n) ==
    getProperties(factoryOptions,
        getSchemaGenerator(factoryOptions, Get(models, associationOf(n).target),
            [propertyRoot |-> theOptions.propertyRoot \o s_properties \o jsonKeyOf(n)]),
        NoArgument, 1).value

less(property, without) ==
    [k \in DOMAIN property \ without |-> property[k]]

\* The property the embed-or-reference branch builds for n
unwrapped(n) ==
    associationProperty(factoryOptions, this, jsonKeyOf(n),
                        Get(models, associationOf(n).target), 0).value

-----------------------------------------------------------------------------
(* C5, C6: custom schema and enum examples *)

\* The fragments customSchema holds for the generator's model, by JSON key
customFragments ==
    IF Has(generator.customSchema, generator.model)
    THEN Get(generator.customSchema, generator.model)
    ELSE EmptyMap

\* C5: every field f of customSchema[modelName][k] is, in the property that
\* getProperties returns under k, exactly the configured value; for every f
\* (title, type, $id, examples, enum, description) and whether k is a leaf
\* attribute, an association or a virtual property.
C5_CustomSchemaOverridesEveryField ==
    returned =>
        \A i \in 1..Len(customFragments) :
            LET k == customFragments[i][1]
                fragment == customFragments[i][2]
            IN Has(returnedProperties, k) =>
                   \A f \in DOMAIN fragment :
                       /\ f \in DOMAIN Get(returnedProperties, k)
                       /\ Get(returnedProperties, k)[f] = fragment[f]

\* Every property of the map, and of every nested inline map, that has an
\* enum has examples holding each enum value, without duplicates
RECURSIVE enumsExemplified(_)
enumsExemplified(properties) ==
    \A i \in 1..Len(properties) :
        LET property == properties[i][2] IN
        /\ "enum" \in DOMAIN property =>
               /\ "examples" \in DOMAIN property
               /\ Range(property.enum) \subseteq Range(property.examples)
               /\ \A a, b \in 1..Len(property.examples) :
                      property.examples[a] = property.examples[b] => a = b
        /\ "properties" \in DOMAIN property => enumsExemplified(property.properties)
        /\ ("items" \in DOMAIN property /\ "properties" \in DOMAIN property.items) =>
               enumsExemplified(property.items.properties)

\* An options object less its customSchema
withoutCustomSchema(options) ==
    [k \in DOMAIN options \ {"customSchema"} |-> options[k]]

\* C6: every property with an enum (of a native ENUM attribute, of a
\* customSchema fragment or of a virtual-property fragment) has examples that
\* hold every enum value and no duplicate; and a call that raises would have
\* raised without the customSchema as well.
C6_EnumValuesAreExamples ==
    called =>
        IF last.result.ok
        THEN enumsExemplified(returnedProperties)
        ELSE ~getProperties(withoutCustomSchema(factoryOptions),
                            [model |-> this.model,
                             options |-> withoutCustomSchema(this.options),
                             customSchema |-> EmptyMap],
                            last.attributes, 0).ok

-----------------------------------------------------------------------------
(* C7: selection *)

\* associations[model.name][jsonKey] is "inline" in the generator's options
inlineFor(model, jsonKey) ==
    /\ "associations" \in DOMAIN theOptions
    /\ \E i \in 1..Len(theOptions.associations) :
         /\ theOptions.associations[i][1] = model.name
         /\ \E j \in 1..Len(theOptions.associations[i][2]) :
                theOptions.associations[i][2][j] = <<jsonKey, "inline">>

\* The native attributes of model that the hook leaves out
unselected(model) ==
    { a \in Range(Keys(model.attributes)) :
        /\ a \notin Range(callSelectAttributes(theOptions.selectAttributes, model))
        /\ ~inlineFor(model, a) }

\* The map that describes model has no key for an attribute the hook left
\* out, under its native or its JSON name; nor has any nested inline map
RECURSIVE unselectedAbsent(_, _)
unselectedAbsent(model, properties) ==
    /\ \A a \in unselected(model) :
         /\ ~Has(properties, a)
         /\ ~Has(properties, getJsonAttribute(model, theOptions, a))
    /\ \A i \in 1..Len(properties) :
         LET key == properties[i][1]
             property == properties[i][2]
             modelKey == getAssociationKeys(model, theOptions, key)[1]
             target == Get(models, Get(model.associations, modelKey).target)
         IN /\ "properties" \in DOMAIN property =>
                   unselectedAbsent(target, property.properties)
            /\ ("items" \in DOMAIN property /\ "properties" \in DOMAIN property.items) =>
                   unselectedAbsent(target, property.items.properties)

\* C7: with a selectAttributes hook configured, a call without an attribute
\* list returns no key for a native attribute that the hook does not return
\* and that is not a configured inline association (password is absent), at
\* the top level and in nested inline maps, also under a jsonAttributeMapper.
C7_UnselectedAttributesAbsent ==
    (returned /\ ~last.attributes.given /\ "selectAttributes" \in DOMAIN theOptions)
    => unselectedAbsent(theModel, returnedProperties)

\* C7 witness: a call without arguments on address, whose hook-selected
\* attributes a mapper renames, embedded user without its password
C7_Witness ==
    /\ returned /\ ~last.attributes.given
    /\ "selectAttributes" \in DOMAIN theOptions
    /\ "jsonAttributeMapper" \in DOMAIN theOptions
    /\ generator.model = s_address
    /\ Has(returnedProperties, s_user)
    /\ "properties" \in DOMAIN Get(returnedProperties, s_user)
    /\ s_password \in unselected(user)
    /\ Has(Get(returnedProperties, s_user).properties, s_fullName)
    /\ ~Has(Get(returnedProperties, s_user).properties, s_password)

-----------------------------------------------------------------------------
(* C8: key order *)

\* The JSON keys the configurations can produce, in dictionary order
\* (alphabetical whatever the case, the underscore before the letters)
dictionaryOrder ==
    << s_address, s_addresses, s_country, s_full_name, s_fullName, s_location,
       s_Mood, s_name, s_password, s_postCount, s_profile, s_profiles, s_status,
       s_user, s_users, s_userUuid, s_uuid >>

rankOf(key) == CHOOSE i \in 1..Len(dictionaryOrder) : dictionaryOrder[i] = key

\* The keys of the map, and of every nested inline map, strictly ascend
RECURSIVE keysAscend(_)
keysAscend(properties) ==
    /\ \A i \in 1..Len(properties) : properties[i][1] \in Range(dictionaryOrder)
    /\ \A i \in 1..(Len(properties) - 1) :
           rankOf(properties[i][1]) < rankOf(properties[i + 1][1])
    /\ \A i \in 1..Len(properties) :
           LET property == properties[i][2] IN
           /\ "properties" \in DOMAIN property => keysAscend(property.properties)
           /\ ("items" \in DOMAIN property /\ "properties" \in DOMAIN property.items) =>
                  keysAscend(property.items.properties)

\* The virtual properties configured for the generator's model
virtualKeys ==
    IF "virtualProperties" \in DOMAIN theOptions
       /\ Has(theOptions.virtualProperties, generator.model)
    THEN Range(Keys(Get(theOptions.virtualProperties, generator.model)))
    ELSE {}

-----------------------------------------------------------------------------
(* C9: the document head and the href base *)

\* h with one "/" appended if and only if it does not end with one
withSeparator(h) == IF h[Len(h)] = "/" THEN h ELSE h \o <<"/">>

\* The capitalised singular of each model name
titleOf(name) ==
    CASE name = s_user -> <<"U", "s", "e", "r">>
      [] name = s_address -> <<"A", "d", "d", "r", "e", "s", "s">>
      [] name = s_profile -> <<"P", "r", "o", "f", "i", "l", "e">>
      [] name = s_place -> <<"P", "l", "a", "c", "e">>

hasDoubleSeparator(s) ==
    \E i \in 1..(Len(s) - 1) : s[i] = "/" /\ s[i + 1] = "/"

\* The $ref values of the map and of every nested inline map
RECURSIVE refsOf(_)
refsOf(properties) ==
    UNION { LET property == properties[i][2] IN
            (IF "$ref" \in DOMAIN property THEN {property["$ref"]} ELSE {})
            \cup (IF "items" \in DOMAIN property /\ "$ref" \in DOMAIN property.items
                  THEN {property.items["$ref"]} ELSE {})
            \cup (IF "properties" \in DOMAIN property
                  THEN refsOf(property.properties) ELSE {})
            \cup (IF "items" \in DOMAIN property /\ "properties" \in DOMAIN property.items
                  THEN refsOf(property.items.properties) ELSE {})
          : i \in 1..Len(properties) }

\* The $ref values of the top-level associations
topRefs(properties) ==
    UNION { LET property == properties[i][2] IN
            (IF "$ref" \in DOMAIN property THEN {property["$ref"]} ELSE {})
            \cup (IF "items" \in DOMAIN property /\ "$ref" \in DOMAIN property.items
                  THEN {property.items["$ref"]} ELSE {})
          : i \in 1..Len(properties) }

\* C9: a generator constructed with the non-empty string hrefBase h returns
\* from getSchema a document with title the capitalised singular of the model
\* name, type "object", the Draft-06 $schema and $id = h' + modelName +
\* ".json", h' being h with one "/" appended iff h does not end with "/";
\* its references start with h', and no $id or $ref of the document, nested
\* inline maps included, has a doubled separator, also when the generator was
\* built from options an earlier construction had normalised.
C9_DocumentHead ==
    (last.op = "getSchema" /\ last.result.ok) =>
        LET h == supplied.hrefBase.v
            doc == last.result.value
        IN /\ doc.title = titleOf(generator.model)
           /\ doc.type = "object"
           /\ doc["$schema"] = "http://json-schema.org/draft-06/schema#"
           /\ doc["$id"] = withSeparator(h) \o generator.model \o <<".", "j", "s", "o", "n">>
           /\ theOptions.hrefBase.v = withSeparator(h)
           /\ \A r \in topRefs(doc.properties) :
                  \E name \in {s_user, s_address, s_profile, s_place} :
                      r = withSeparator(h) \o name \o <<".", "j", "s", "o", "n">>
           /\ \A r \in refsOf(doc.properties) \cup {doc["$id"]} : ~hasDoubleSeparator(r)

\* C9 witness: getSchema returned references from a generator built on the
\* options object that an earlier construction had normalised from a hrefBase
\* without separator
C9_Witness ==
    /\ last.op = "getSchema" /\ last.result.ok
    /\ generator.options = "caller"
    /\ factoryOptions.hrefBase.v # withSeparator(factoryOptions.hrefBase.v)
    /\ supplied.hrefBase.v = withSeparator(factoryOptions.hrefBase.v)
    /\ topRefs(last.result.value.properties) # {}

-----------------------------------------------------------------------------
(* C10: construction errors *)

\* The model has a table identity
isModel(model) == model \in {user, address, profile, place}

\* hrefBase is a non-empty string
hasHrefBase(options) ==
    /\ "hrefBase" \in DOMAIN options
    /\ options.hrefBase.t = "string"
    /\ options.hrefBase.v # <<>>

\* The last call constructed a generator, directly or through the factory
constructing == last.op \in {"new", "getSchemaGenerator"}

\* The options object the last construction was given, as it is now
givenOptions == IF last.op = "new" THEN callerOptions ELSE mergedOptions

\* C10: a construction, direct or through the factory, raises and yields no
\* generator exactly when the model is missing or has no tableName, or
\* hrefBase is absent, empty or no string; the model is checked first; the
\* options object of a failed construction is as it was supplied.  The child
\* generator of an inline association is built from the factory's defaults,
\* and getProperties raises when these lack a valid hrefBase.
C10_ConstructionFailsFast ==
    /\ constructing =>
         /\ last.ok <=> (isModel(last.model) /\ hasHrefBase(supplied))
         /\ last.ok <=> (generator # None)
         /\ ~last.ok =>
              /\ last.error = IF ~isModel(last.model) THEN InvalidModelError
                              ELSE MissingConfigError
              /\ givenOptions = supplied
    /\ (called /\ generator.options = "merged" /\ ~hasHrefBase(factoryOptions)) =>
         \/ ~last.attributes.given /\ "associations" \notin DOMAIN theOptions
         \/ associationNames = {}
         \/ \A n \in associationNames : ~configuredInline(jsonKeyOf(n))
         \/ /\ ~last.result.ok
            /\ last.result.error = MissingConfigError

\* C10 witness: a direct construction failed on an object that is no model
\* although the hrefBase it was given is no string either
C10_Witness ==
    /\ last.op = "new" /\ ~last.ok
    /\ last.model = ghost
    /\ "hrefBase" \in DOMAIN supplied /\ supplied.hrefBase.t = "number"
    /\ last.error = InvalidModelError
    /\ generator = None

-----------------------------------------------------------------------------
(* C11: native types the type map lacks *)

\* No property of the map, nor of any nested inline map, has an undefined type
RECURSIVE typesDefined(_)
typesDefined(properties) ==
    \A i \in 1..Len(properties) :
        LET property == properties[i][2] IN
        /\ "type" \in DOMAIN property => property.type # Undefined
        /\ "properties" \in DOMAIN property => typesDefined(property.properties)
        /\ ("items" \in DOMAIN property /\ "properties" \in DOMAIN property.items) =>
               typesDefined(property.items.properties)

\* The selected names that are described as native attributes of a type the
\* type map has no entry for
unmappedNames ==
    { n \in Range(selectedNames) :
        /\ getAssociationKeys(theModel, theOptions, n)[1] = False
        /\ n # s_uuid /\ ~endsWith(n, s_Uuid)
        /\ Has(theModel.attributes, n)
        /\ Get(theModel.attributes, n).type.key \notin
               {"INTEGER", "BIGINT", "FLOAT", "BOOLEAN", "STRING", "TEXT",
                "JSON", "JSONB", "ARRAY", "ENUM", "DATE"} }

\* C11: a call that selects a native attribute whose type key the type map
\* lacks raises and returns no document; no property a call returns has an
\* undefined type.
C11_UnmappedTypeRaises ==
    /\ returned => typesDefined(returnedProperties)
    /\ (called /\ (last.attributes.given \/ "associations" \in DOMAIN theOptions)
        /\ unmappedNames # {}) => ~last.result.ok

-----------------------------------------------------------------------------
(* C12: getDbType *)

\* The name is uuid or ends in Uuid
uuidShaped(n) ==
    \/ n = <<"u", "u", "i", "d">>
    \/ /\ Len(n) >= 4
       /\ SubSeq(n, Len(n) - 3, Len(n)) = <<"U", "u", "i", "d">>

\* The selected names that are described as leaves, not as associations
leafNames ==
    { n \in Range(selectedNames) : getAssociationKeys(theModel, theOptions, n)[1] = False }

\* The schema primitive of each native type key
primitiveOf(key) ==
    CASE key \in {"INTEGER", "BIGINT"} -> "integer"
      [] key = "FLOAT" -> "number"
      [] key = "BOOLEAN" -> "boolean"
      [] key \in {"STRING", "TEXT", "ENUM", "DATE"} -> "string"
      [] key \in {"JSON", "JSONB"} -> "object"
      [] key = "ARRAY" -> "array"
      [] OTHER -> Undefined

\* The selection could be resolved (it was given, or associations is set)
selectionKnown == last.attributes.given \/ "associations" \in DOMAIN theOptions

-----------------------------------------------------------------------------
(* C13: inline associations that form a cycle *)

\* C13: no call exhausts the call stack: where the configuration makes two
\* models embed each other, the recursion is cut by a guard and the call
\* fails with CyclicInlineAssociationError.
C13_CyclicInlineIsGuarded ==
    called =>
        \/ last.result.ok
        \/ last.result.error # RangeError

-----------------------------------------------------------------------------
(* C14: the values 'INLINE' and 'REL' *)

\* The value configured for the association under JSON key jsonKey, if any
configuredValue(jsonKey) ==
    IF "associations" \in DOMAIN theOptions
       /\ Has(theOptions.associations, generator.model)
       /\ Has(Get(theOptions.associations, generator.model), jsonKey)
    THEN Get(Get(theOptions.associations, generator.model), jsonKey)
    ELSE "none"

\* C14: an association whose value under associations[modelName] is 'INLINE'
\* is embedded in the schema, one whose value is 'REL' is given by reference.
C14_UpperCaseInlineEmbeds ==
    returned =>
        \A n \in associationNames :
            /\ configuredValue(jsonKeyOf(n)) = "INLINE" =>
                   /\ "properties" \in DOMAIN bodyOf(n)
                   /\ "$ref" \notin DOMAIN bodyOf(n)
            /\ configuredValue(jsonKeyOf(n)) = "REL" =>
                   /\ "$ref" \in DOMAIN bodyOf(n)
                   /\ "properties" \notin DOMAIN bodyOf(n)

-----------------------------------------------------------------------------
(* C15: determinism *)

\* A generator built now from the options the held one was built from
freshGenerator ==
    [model |-> constructor(theModel, supplied).model,
     options |-> constructor(theModel, supplied).options,
     customSchema |-> constructor(theModel, supplied).customSchema]

-----------------------------------------------------------------------------
(* C16: the names getProperties describes *)

\* The list by strict fallback: the argument, else the hook's result, else
\* the native attributes with the associations configured for the model
strictFallback ==
    IF last.attributes.given THEN last.attributes.names
    ELSE IF "selectAttributes" \in DOMAIN theOptions
    THEN callSelectAttributes(theOptions.selectAttributes, theModel)
    ELSE Keys(theModel.attributes) \o selectAssociations(theModel, theOptions).value

\* The key under which a selected name is stored
jsonNameOf(n) ==
    IF getAssociationKeys(theModel, theOptions, n)[1] # False THEN jsonKeyOf(n)
    ELSE getJsonAttribute(theModel, theOptions, n)

\* C16: the properties a call returns are, apart from the virtual ones, those
\* of the names found by strict fallback: the attribute list argument exactly
\* as given; else exactly the result of the selectAttributes hook; else every
\* native attribute and every association configured for the model.
C16_NamesByStrictFallback ==
    (returned /\ selectionKnown) =>
        Range(Keys(returnedProperties)) \ virtualKeys
            = { jsonNameOf(n) : n \in Range(strictFallback) } \ virtualKeys

-----------------------------------------------------------------------------
(* C17: associations before attributes *)

\* The fields only an association schema has, and those only a leaf has
associationFields == {"$ref", "properties", "items"}
leafFields == {"examples"}

\* C17: every selected name that the association-key mapper resolves to an
\* association of the model is described by the association schema (a $ref or
\* an inline object, wrapped in an array when many-valued), also when the
\* model has a native attribute of the same name; every other selected name
\* is described as a leaf, with type and examples and no association field.
\* (Options without customSchema and virtualProperties.)
C17_AssociationTakesPrecedence ==
    (returned /\ selectionKnown /\ "customSchema" \notin DOMAIN theOptions
              /\ "virtualProperties" \notin DOMAIN theOptions) =>
        /\ \A n \in associationNames :
               /\ Has(returnedProperties, jsonKeyOf(n))
               /\ DOMAIN Get(returnedProperties, jsonKeyOf(n)) \cap leafFields = {}
               /\ isManyValued(n) =>
                      /\ "items" \in DOMAIN Get(returnedProperties, jsonKeyOf(n))
                      /\ Get(returnedProperties, jsonKeyOf(n)).type = "array"
               /\ "items" \in DOMAIN Get(returnedProperties, jsonKeyOf(n)) => isManyValued(n)
               /\ \/ "$ref" \in DOMAIN bodyOf(n)
                  \/ "properties" \in DOMAIN bodyOf(n) /\ bodyOf(n).type = "object"
        /\ \A n \in leafNames :
               /\ Has(returnedProperties, jsonNameOf(n))
               /\ DOMAIN Get(returnedProperties, jsonNameOf(n)) \cap associationFields = {}
               /\ {"type", "examples"} \subseteq DOMAIN Get(returnedProperties, jsonNameOf(n))

\* C17 witness: place has a native attribute user and an association user;
\* the returned map describes user by reference and location as a leaf
C17_Witness ==
    /\ returned /\ generator.model = s_place /\ selectionKnown
    /\ "customSchema" \notin DOMAIN theOptions
    /\ "virtualProperties" \notin DOMAIN theOptions
    /\ s_user \in associationNames
    /\ Has(theModel.attributes, s_user)
    /\ "$ref" \in DOMAIN Get(returnedProperties, jsonKeyOf(s_user))
    /\ s_location \in leafNames

-----------------------------------------------------------------------------
(* C18: virtual properties *)

\* The fragment configured for virtual property p, and the customSchema
\* fragment configured for the same name (none: no fields)
virtualFragment(p) == Get(Get(theOptions.virtualProperties, generator.model), p)
customFragment(p) ==
    IF Has(generator.customSchema, generator.model)
       /\ Has(Get(generator.customSchema, generator.model), p)
    THEN Get(Get(generator.customSchema, generator.model), p)
    ELSE <<>>

\* The fields generatePropertySchema writes
generatedFields == {"type", "$id", "examples", "title"}

\* The entry of p has the generated type and $id and the fragment's other
\* fields, where a custom fragment does not set them
virtualAsGenerated(p) ==
    /\ Has(returnedProperties, p)
    /\ "type" \notin DOMAIN customFragment(p) =>
           Get(returnedProperties, p).type = primitiveOf(virtualFragment(p).type)
    /\ "$id" \notin DOMAIN customFragment(p) =>
           Get(returnedProperties, p)["$id"] = theOptions.propertyRoot \o s_properties \o p
    /\ \A f \in DOMAIN virtualFragment(p) \ (generatedFields \cup DOMAIN customFragment(p)) :
           /\ f \in DOMAIN Get(returnedProperties, p)
           /\ Get(returnedProperties, p)[f] = virtualFragment(p)[f]

\* The entry of p has every field of the custom fragment, with its value
customWins(p) ==
    /\ Has(returnedProperties, p)
    /\ \A f \in DOMAIN customFragment(p) :
           /\ f \in DOMAIN Get(returnedProperties, p)
           /\ Get(returnedProperties, p)[f] = customFragment(p)[f]

\* C18: for every virtual property p configured for the model, the map a call
\* returns (with or without an attribute list) has an entry p whose type is
\* the primitive of p's declared type, whose $id is propertyRoot +
\* "/properties/" + p, which keeps the fragment's extra fields, and onto which
\* the customSchema fragment configured for p is merged, its keys winning.
C18_VirtualPropertiesInjected ==
    returned => \A p \in virtualKeys : virtualAsGenerated(p) /\ customWins(p)

-----------------------------------------------------------------------------
(* C19: the factory's defaults *)

\* An option as a generator holds it: hrefBase ends with the separator
normalised(key, value) ==
    IF key = "hrefBase" THEN StringValue(withSeparator(value.v)) ELSE value

\* The options of a generator just obtained from the factory: the override
\* keys, then the defaults, the factory and an empty propertyRoot
mergedFrom(defaults, overrides, merged) ==
    /\ DOMAIN merged = DOMAIN defaults \cup DOMAIN overrides \cup {"factory", "propertyRoot"}
    /\ \A k \in DOMAIN overrides : merged[k] = normalised(k, overrides[k])
    /\ \A k \in DOMAIN defaults \ DOMAIN overrides : merged[k] = normalised(k, defaults[k])
    /\ merged.propertyRoot = <<>>
    /\ merged.factory = "this"

\* One step leaves the defaults alone, and a generator it obtains from the
\* factory has the overrides merged over them
defaultsKept ==
    /\ factoryOptions' = factoryOptions
    /\ (last'.op = "getSchemaGenerator" /\ last'.ok) =>
           mergedFrom(factoryOptions, last'.overrides, mergedOptions')

\* C19: no getSchemaGenerator, getSchema or getProperties call, nor a child
\* generator spawned for an inline association, changes the options the
\* factory stores: the separator and the propertyRoot are written to the
\* generator's merged copy only, so a generator obtained later without
\* overrides has propertyRoot "" and the configured defaults; in the merged
\* options the override keys win over the defaults.
C19_FactoryDefaultsUnchanged == [][defaultsKept]_vars

\* C19 witness: a generator obtained with an hrefBase override holds the
\* normalised override, while the factory still holds its own hrefBase
\* without separator and no propertyRoot
C19_Witness ==
    /\ last.op = "getSchemaGenerator" /\ last.ok
    /\ "hrefBase" \in DOMAIN last.overrides
    /\ mergedOptions.hrefBase = StringValue(withSeparator(s_other))
    /\ hasHrefBase(factoryOptions)
    /\ factoryOptions.hrefBase.v # withSeparator(factoryOptions.hrefBase.v)
    /\ "propertyRoot" \notin DOMAIN factoryOptions
    /\ mergedOptions.propertyRoot = <<>>

-----------------------------------------------------------------------------
(* C20: the options object of a direct construction *)

\* The program holds a generator constructed directly on the caller's object
direct == generator # None /\ generator.options = "caller"

\* Every key the caller supplied, other than propertyRoot, has its value,
\* hrefBase with the separator
suppliedKept ==
    \A k \in DOMAIN supplied \ {"propertyRoot"} :
        /\ k \in DOMAIN callerOptions
        /\ callerOptions[k] = normalised(k, supplied[k])

\* C20 as stated: after a direct construction on the caller's options object
\* and any number of getSchema and getProperties calls, the object has the
\* keys and values it was supplied with, except that hrefBase ends with the
\* separator: no key is added and no other key rewritten.
C20_OnlyHrefBaseChanges ==
    direct =>
        /\ DOMAIN callerOptions = DOMAIN supplied
        /\ suppliedKept
        /\ "propertyRoot" \in DOMAIN supplied =>
               callerOptions.propertyRoot = supplied.propertyRoot

\* C20, amended: the object has the keys and values it was supplied with,
\* except that hrefBase ends with the separator and that propertyRoot is set,
\* to "" when the caller supplied none; customSchema, virtualProperties and
\* associations are as supplied, through every later call.
C20_HrefBaseAndPropertyRootChange ==
    direct =>
        /\ DOMAIN callerOptions = DOMAIN supplied \cup {"propertyRoot"}
        /\ suppliedKept
        /\ callerOptions.propertyRoot =
               IF "propertyRoot" \in DOMAIN supplied
               THEN supplied.propertyRoot ELSE <<>>

\* C20 witness: getSchema() has returned more than once from a generator
\* constructed directly on options that carry customSchema and
\* virtualProperties but no propertyRoot, and whose hrefBase lacked the
\* separator
C20_Witness ==
    /\ direct /\ last.op = "getSchema" /\ last.again /\ last.result.ok
    /\ {"customSchema", "virtualProperties", "associations"} \subseteq DOMAIN supplied
    /\ "propertyRoot" \notin DOMAIN supplied
    /\ callerOptions.hrefBase # supplied.hrefBase
    /\ callerOptions.propertyRoot = <<>>

-----------------------------------------------------------------------------
(* C21: assertAllPropertiesDescribed *)

\* The keys under which the response describes associations of the model
responseAssociations ==
    { getAssociationKeys(theModel, theOptions, n)[2] :
        n \in { s \in Range(selectAttributes(theModel, theOptions).value) :
                  getAssociationKeys(theModel, theOptions, s)[1] # False } }

\* The fields every property must have
requiredFields ==
    IF last.fields.given THEN Range(last.fields.names)
    ELSE {"description", "examples", "type", "title", "$id"}

\* The required fields a property lacks
gaps(prop) == { f \in requiredFields : f \notin DOMAIN prop }

\* The positions of the top-level properties that are no association and
\* lack a required field
offending ==
    { i \in 1..Len(last.response.properties) :
        /\ last.response.properties[i][1] \notin responseAssociations
        /\ gaps(last.response.properties[i][2]) # {} }

\* C21: assertAllPropertiesDescribed(response, fields) fails exactly when some
\* top-level property that is no association lacks a required field; every
\* association property (reference or inline, array-wrapped or not) is
\* exempt; and the failure reports every offending property with all the
\* fields it lacks.
C21_AssociationsExemptAllGapsReported ==
    asserted =>
        /\ ~last.result.ok <=> offending # {}
        /\ ~last.result.ok =>
             /\ Range(Keys(last.result.missing))
                  = { last.response.properties[i][1] : i \in offending }
             /\ \A i \in offending :
                    Range(Get(last.result.missing, last.response.properties[i][1]))
                        = gaps(last.response.properties[i][2])

=============================================================================
